---- MODULE Spec2Model ----
(***************************************************************************)
(* Model of breeze_client/session_manager.py: the SessionManager that      *)
(* persists one session token with its expiry in a one-line file           *)
(*     <session_token>|<expiry_timestamp_iso8601>\n                        *)
(* and keeps an in-memory copy (_session_token, _expiry).                  *)
(*                                                                         *)
(* Text is a sequence of symbols.  A token is a sequence of one-character  *)
(* symbols; the date-and-time part of an ISO-8601 timestamp is one symbol  *)
(* (the decimal numeral of the instant) and the UTC offset "+00:00" is one *)
(* symbol.  Time is counted in whole minutes.                              *)
(***************************************************************************)
EXTENDS Integers, Sequences, FiniteSets, TLC

\* ------------------------------------------------------------- bounds
MaxTime == 2          \* the clock and the expiries given to save run over 0..MaxTime
DayLen == 2           \* minutes in a model day (decides the default expiry)
MaxPhrases == 2       \* phrases in the message of an SDK error
MaxKeys == 2          \* keys in a dictionary of keyword arguments

Times == 0..MaxTime
TimeStamps == 0..(MaxTime + DayLen)

\* ------------------------------------------------------------- values
None == <<>>
Some(x) == <<x>>

\* datetime values: an instant and whether tzinfo is set
DateTimes == [t : Times, aware : BOOLEAN]

\* Tokens handed to save_session.  The separator is "|".
PlainTokens == {<<"a">>, <<"b">>, <<>>, <<" ", "a">>}
BarTokens == {<<"a", "|", "b">>}
AllTokens == PlainTokens \cup BarTokens

Whitespace == {" ", "\n"}

Range(s) == {s[i] : i \in 1..Len(s)}

\* Session exceptions and the error save_session raises
SessionNotFoundError == "SessionNotFoundError"
SessionExpiredError == "SessionExpiredError"
IOError == "IOError"
NoExc == "none"

\* ------------------------------------------------------------- the file
SecureMode == 384     \* 0o600
DefaultMode == 420    \* 0o644: a file created by write_text under umask 022
OpenMode == 438       \* 0o666: a file somebody made world-accessible

NoFile == [exists |-> FALSE, content |-> <<>>, mode |-> 0]
FileOf(content, mode) == [exists |-> TRUE, content |-> content, mode |-> mode]

NoCache == [tok |-> None, exp |-> None]

\* ------------------------------------------------------------- text
RECURSIVE lstrip(_)
lstrip(s) ==
    IF s # <<>> /\ Head(s) \in Whitespace THEN lstrip(Tail(s)) ELSE s

RECURSIVE rstrip(_)
rstrip(s) ==
    IF s # <<>> /\ s[Len(s)] \in Whitespace
    THEN rstrip(SubSeq(s, 1, Len(s) - 1))
    ELSE s

\* str.strip()
strip(s) == rstrip(lstrip(s))

\* content.rsplit('|', 1): the text is cut at its last '|'
rsplit(s) ==
    LET i == CHOOSE k \in 1..Len(s) :
                 s[k] = "|" /\ \A j \in (k + 1)..Len(s) : s[j] # "|"
    IN  [token |-> SubSeq(s, 1, i - 1), expiry_str |-> SubSeq(s, i + 1, Len(s))]

\* content.split('|', 1) of a text that holds a '|'
split(s) ==
    LET i == CHOOSE k \in 1..Len(s) :
                 s[k] = "|" /\ \A j \in 1..(k - 1) : s[j] # "|"
    IN  [token |-> SubSeq(s, 1, i - 1), expiry_str |-> SubSeq(s, i + 1, Len(s))]

\* datetime.isoformat()
isoformat(d) ==
    <<ToString(d.t)>> \o (IF d.aware THEN <<"+00:00">> ELSE <<>>)

\* datetime.fromisoformat(): None stands for ValueError
fromisoformat(s) ==
    IF /\ Len(s) \in {1, 2}
       /\ \E t \in TimeStamps : ToString(t) = s[1]
       /\ (Len(s) = 2 => s[2] = "+00:00")
    THEN Some([t |-> CHOOSE t \in TimeStamps : ToString(t) = s[1],
               aware |-> Len(s) = 2])
    ELSE None

\* expiry.replace(tzinfo=timezone.utc) when tzinfo is None
as_utc(d) == [d EXCEPT !.aware = TRUE]

\* datetime(now.year, now.month, now.day, tzinfo=utc): "midnight today UTC"
midnight(n) == [t |-> (n \div DayLen) * DayLen, aware |-> TRUE]

\* datetime(now.year, now.month, now.day, 23, 59, 59, tzinfo=utc)
end_of_day(n) == [t |-> (n \div DayLen) * DayLen + (DayLen - 1), aware |-> TRUE]

\* the line save_session writes
file_line(token, expiry) == token \o <<"|">> \o isoformat(expiry) \o <<"\n">>

\* ------------------------------------------------------------- handlers
\* Every handler is a function of the file, the manager's cache and the clock
\* values it reads; it gives the file and cache it leaves, the exception it
\* raises (NoExc for a normal return) and, where it has one, what it returns.

\* what a handler gives
Result(fs, c, exc, ret) == [fs |-> fs, c |-> c, exc |-> exc, ret |-> ret]

\* clear_session without "if self.session_file.exists()": unlink raises when
\* there is no file, before the cache is cleared
clear_session_unguarded(fs, c) ==
    IF fs.exists
    THEN Result(NoFile, NoCache, NoExc, None)
    ELSE Result(fs, c, "FileNotFoundError", None)

\* SessionManager.clear_session
clear_session(fs, c) == Result(NoFile, NoCache, NoExc, None)

\* "if now > expiry": the instant of expiry still counts as valid
is_expired_strict(n, expiry) == n > expiry.t

\* "if now >= expiry" of _load_session
is_expired(n, expiry) == n >= expiry.t

\* "return now <= self._expiry"
not_yet_expired_inclusive(n, expiry) == n <= expiry.t

\* "return now < self._expiry" of is_valid
not_yet_expired(n, expiry) == n < expiry.t

\* _load_session on a text without "|": clear and raise SessionNotFoundError
no_separator(fs, c) ==
    [clear_session(fs, c) EXCEPT !.exc = SessionNotFoundError]

\* _load_session without its except clause: the parse error gets out
corrupted_file_reraise(fs, c) == Result(fs, c, "ValueError", None)

\* _load_session's "except (ValueError, OSError)": clear and raise
\* SessionNotFoundError
corrupted_file(fs, c) ==
    [clear_session(fs, c) EXCEPT !.exc = SessionNotFoundError]

\* raise SessionExpiredError without clear_session
expired_record_kept(fs, c) == Result(fs, c, SessionExpiredError, None)

\* _load_session on an expired record: clear and raise SessionExpiredError
expired_record(fs, c) ==
    [clear_session(fs, c) EXCEPT !.exc = SessionExpiredError]

\* "Ensure timezone awareness" of _load_session, "Ensure expiry has timezone
\* info" of save_session
ensure_aware(expiry) == IF ~expiry.aware THEN as_utc(expiry) ELSE expiry

\* _load_session from "Check if expired" on, with the token and the expiry it
\* has parsed; n is the clock it reads
load_checked(fs, c, token, expiry, n) ==
    IF is_expired(n, expiry)
    THEN expired_record(fs, c)
    ELSE Result(fs, [tok |-> Some(token), exp |-> Some(expiry)], NoExc, None)

\* _load_session from fromisoformat on; parsed is what fromisoformat gave
load_parsed(fs, c, token, parsed, n) ==
    IF parsed = None
    THEN corrupted_file(fs, c)
    ELSE load_checked(fs, c, token, ensure_aware(parsed[1]), n)

\* _load_session from content.split on
load_split(fs, c, parts, n) ==
    load_parsed(fs, c, parts.token, fromisoformat(parts.expiry_str), n)

\* _load_session on the stripped text of the file
load_content(fs, c, content, n) ==
    IF "|" \notin Range(content)
    THEN no_separator(fs, c)
    ELSE load_split(fs, c, split(content), n)

\* SessionManager._load_session
_load_session(fs, c, n) ==
    IF ~fs.exists
    THEN Result(fs, c, SessionNotFoundError, None)
    ELSE load_content(fs, c, strip(fs.content), n)

\* the exceptions the callers of _load_session catch
Caught == {SessionExpiredError, SessionNotFoundError}

\* __init__ after its call of _load_session, which gave r
init_loaded(r) ==
    Result(r.fs, r.c, IF r.exc \in Caught THEN NoExc ELSE r.exc, None)

\* SessionManager.__init__: a manager constructed on the file
__init__(fs, n) ==
    IF fs.exists
    THEN init_loaded(_load_session(fs, NoCache, n))
    ELSE Result(fs, NoCache, NoExc, None)

\* save_session without "Update cache": the file is written and the cache
\* keeps what it held
save_steps_uncached(fs, c, session_token, expiry, mode, fault) ==
    CASE fault = "open" -> Result(fs, c, IOError, None)
      [] fault = "write" -> Result(FileOf(<<>>, mode), c, IOError, None)
      [] fault = "chmod" ->
           Result(FileOf(file_line(session_token, expiry), mode), c, IOError, None)
      [] OTHER ->
           Result(FileOf(file_line(session_token, expiry), SecureMode), c, NoExc, None)

\* save_session without os.chmod: the file keeps the mode it was opened with
save_steps_no_chmod(fs, c, session_token, expiry, mode, fault) ==
    CASE fault = "open" -> Result(fs, c, IOError, None)
      [] fault = "write" -> Result(FileOf(<<>>, mode), c, IOError, None)
      [] OTHER ->
           Result(FileOf(file_line(session_token, expiry), mode),
                  [tok |-> Some(session_token), exp |-> Some(expiry)],
                  NoExc, None)

\* the try block of save_session, expiry being the expiry it writes and mode
\* the mode of the file it opens: fault names the storage step that fails,
\* "none", "open" (the file cannot be opened for writing), "write" (the file
\* was opened, hence truncated, and the write failed) or "chmod"
save_steps(fs, c, session_token, expiry, mode, fault) ==
    CASE fault = "open" -> Result(fs, c, IOError, None)
      [] fault = "write" -> Result(FileOf(<<>>, mode), c, IOError, None)
      [] fault = "chmod" ->
           Result(FileOf(file_line(session_token, expiry), mode), c, IOError, None)
      [] OTHER ->
           Result(FileOf(file_line(session_token, expiry), SecureMode),
                  [tok |-> Some(session_token), exp |-> Some(expiry)],
                  NoExc, None)

\* SessionManager.save_session.  expiry is None or Some(datetime); n is the
\* clock read for the default expiry.
save_session(fs, c, session_token, expiry, n, fault) ==
    save_steps(fs, c, session_token,
               ensure_aware(IF expiry = None THEN end_of_day(n) ELSE expiry[1]),
               IF fs.exists THEN fs.mode ELSE DefaultMode,
               fault)

\* load_session after its call of _load_session, which gave r
load_returned(r) ==
    Result(r.fs, r.c, r.exc, IF r.exc = NoExc THEN <<r.c.tok, r.c.exp>> ELSE None)

\* SessionManager.load_session
load_session(fs, c, n) == load_returned(_load_session(fs, c, n))

\* is_valid after its call of _load_session, which gave r; n2 is the clock
\* read of "Check expiry"
is_valid_loaded(r, n2) ==
    IF r.exc \in Caught
    THEN Result(r.fs, r.c, NoExc, FALSE)
    ELSE IF r.exc # NoExc
    THEN Result(r.fs, r.c, r.exc, FALSE)
    ELSE Result(r.fs, r.c, NoExc, not_yet_expired(n2, r.c.exp[1]))

\* is_valid without the cache-first check: it goes to the file on every call
is_valid_from_file(fs, c, n1, n2) ==
    IF ~fs.exists
    THEN Result(fs, c, NoExc, FALSE)
    ELSE is_valid_loaded(_load_session(fs, c, n1), n2)

\* SessionManager.is_valid; n1 is the loader's clock read
is_valid(fs, c, n1, n2) ==
    IF c.tok = None \/ c.exp = None
    THEN IF ~fs.exists
         THEN Result(fs, c, NoExc, FALSE)
         ELSE is_valid_loaded(_load_session(fs, c, n1), n2)
    ELSE Result(fs, c, NoExc, not_yet_expired(n2, c.exp[1]))

\* get_session_token returning the token whatever is_valid gave
token_unchecked(v) == Result(v.fs, v.c, v.exc, v.c.tok)

\* get_session_token after "Double-check not expired", where is_valid gave v
token_checked(v) ==
    IF v.exc # NoExc
    THEN Result(v.fs, v.c, v.exc, None)
    ELSE IF ~v.ret
    THEN Result(v.fs, v.c, SessionExpiredError, None)
    ELSE Result(v.fs, v.c, NoExc, v.c.tok)

\* get_session_token after its call of _load_session, which gave r
token_loaded(r, n2, n3) ==
    IF r.exc # NoExc
    THEN Result(r.fs, r.c, r.exc, None)
    ELSE token_checked(is_valid(r.fs, r.c, n2, n3))

\* SessionManager.get_session_token
get_session_token(fs, c, n1, n2, n3) ==
    IF c.tok = None
    THEN token_loaded(_load_session(fs, c, n1), n2, n3)
    ELSE token_checked(is_valid(fs, c, n2, n3))

SecondsPerMinute == 60

\* timedelta.total_seconds() of (expiry - now)
total_seconds(expiry, n) == (expiry.t - n) * SecondsPerMinute

\* "return remaining" in place of "return max(0, remaining)"
unfloored(a, b) == b

Max(a, b) == IF a >= b THEN a ELSE b

\* time_until_expiry giving 0 instead of None when the session is not valid
remaining_or_zero(v, n3) ==
    IF v.exc # NoExc
    THEN Result(v.fs, v.c, v.exc, None)
    ELSE IF ~v.ret
    THEN Result(v.fs, v.c, NoExc, Some(0))
    ELSE Result(v.fs, v.c, NoExc, Some(Max(0, total_seconds(v.c.exp[1], n3))))

\* time_until_expiry after its call of is_valid, which gave v; n3 is the clock
\* read of the subtraction
remaining(v, n3) ==
    IF v.exc # NoExc \/ ~v.ret
    THEN Result(v.fs, v.c, v.exc, None)
    ELSE Result(v.fs, v.c, NoExc, Some(Max(0, total_seconds(v.c.exp[1], n3))))

\* SessionManager.time_until_expiry
time_until_expiry(fs, c, n1, n2, n3) == remaining(is_valid(fs, c, n1, n2), n3)

\* get_expiry_time without its try/except: what the loader raises gets out
expiry_loaded_reraise(r) == Result(r.fs, r.c, r.exc, r.c.exp)

\* get_expiry_time after its call of _load_session, which gave r
expiry_loaded(r) ==
    IF r.exc \in Caught
    THEN Result(r.fs, r.c, NoExc, None)
    ELSE Result(r.fs, r.c, r.exc, r.c.exp)

\* SessionManager.get_expiry_time
get_expiry_time(fs, c, n) ==
    IF c.exp = None /\ fs.exists
    THEN expiry_loaded(_load_session(fs, c, n))
    ELSE Result(fs, c, NoExc, c.exp)

\* "if remaining_minutes <= warning_minutes"
warning_at_threshold(r, warning_minutes) ==
    IF r.exc # NoExc \/ r.ret = None
    THEN Result(r.fs, r.c, r.exc, None)
    ELSE IF r.ret[1] <= warning_minutes * SecondsPerMinute
    THEN Result(r.fs, r.c, NoExc, Some("warning"))
    ELSE Result(r.fs, r.c, NoExc, None)

\* warn_if_expiring_soon after its call of time_until_expiry, which gave r;
\* the message is "warning".  remaining_seconds / 60 < warning_minutes is
\* compared without the division.
warning(r, warning_minutes) ==
    IF r.exc # NoExc \/ r.ret = None
    THEN Result(r.fs, r.c, r.exc, None)
    ELSE IF r.ret[1] < warning_minutes * SecondsPerMinute
    THEN Result(r.fs, r.c, NoExc, Some("warning"))
    ELSE Result(r.fs, r.c, NoExc, None)

\* SessionManager.warn_if_expiring_soon
warn_if_expiring_soon(fs, c, warning_minutes, n1, n2, n3) ==
    warning(time_until_expiry(fs, c, n1, n2, n3), warning_minutes)

\* ------------------------------------------------------------- the record on disk
\* the file holds a line that parses: a separator and a timestamp after it
HasRecord(f) ==
    /\ f.exists
    /\ "|" \in Range(strip(f.content))
    /\ fromisoformat(split(strip(f.content)).expiry_str) # None

\* the file is there and holds no such line
Corrupted(f) == f.exists /\ ~HasRecord(f)

\* the expiry instant of the record in the file
ExpiryOf(f) == fromisoformat(split(strip(f.content)).expiry_str)[1].t

\* the token of the record in the file
TokenOf(f) == split(strip(f.content)).token

\* Absent, corrupted, Expired or Valid at clock n
DiskState(f, n) ==
    IF ~f.exists THEN "absent"
    ELSE IF ~HasRecord(f) THEN "corrupt"
    ELSE IF ExpiryOf(f) <= n THEN "expired"
    ELSE "valid"

\* ------------------------------------------------------------- state
VARIABLES
    fs,       \* the session file: [exists, content, mode]
    cache,    \* per manager, its (_session_token, _expiry)
    now,      \* the UTC clock, as last read
    last      \* the last call: [op, m, arg, exc, ret, pre]

vars == <<fs, cache, now, last>>

Mgrs == {"A", "B"}    \* manager objects on the same file
Solo == {"A"}         \* the one manager of a single process

ExpiryArgs == {None} \cup {Some(d) : d \in DateTimes}
AwareExpiryArgs == {Some(d) : d \in {x \in DateTimes : x.aware}}
WarningMinutes == {1, 2}

\* what is in the file when it is damaged: nothing, no separator, an empty
\* expiry, an expiry that is no timestamp, a second separator
CorruptContents ==
    {<<>>, <<"a">>, <<"a", "|">>, <<"a", "|", "x">>, <<"a", "|", "1", "|">>}

\* what another program leaves in the file
ExternalContents ==
    {file_line(<<"b">>, d) : d \in {x \in DateTimes : x.aware \/ x.t = MaxTime}}
        \cup CorruptContents

\* the file a process finds when it starts
InitFiles ==
    {NoFile} \cup
    {FileOf(x, mo) : x \in ExternalContents \cup
                         {file_line(t, as_utc(d)) : t \in AllTokens, d \in DateTimes},
                     mo \in {SecureMode, DefaultMode}}

\* the clock values a read can give from n on
After(n) == n..MaxTime

\* the record of a call: what was called, what it gave, and what the manager
\* found when it was called (the state of the file and its mode, whether it
\* held a record)
Called(op, m, arg, exc, ret) ==
    [op |-> op, m |-> m, arg |-> arg, exc |-> exc, ret |-> ret,
     pre |-> [disk |-> DiskState(fs, now), cached |-> cache[m] # NoCache,
              mode |-> fs.mode]]

NoCall(op) ==
    [op |-> op, m |-> "A", arg |-> None, exc |-> NoExc, ret |-> None,
     pre |-> [disk |-> "absent", cached |-> FALSE, mode |-> 0]]

Init ==
    \E f \in InitFiles :
        /\ fs = __init__(f, 0).fs
        /\ cache = [m \in Mgrs |-> IF m \in Solo THEN __init__(f, 0).c ELSE NoCache]
        /\ now = 0
        /\ last = NoCall("__init__")

\* manager m has called op(arg), which gave r, the clock standing at n
Returns(op, m, arg, r, n) ==
    /\ fs' = r.fs
    /\ cache' = [cache EXCEPT ![m] = r.c]
    /\ now' = n
    /\ last' = Called(op, m, arg, r.exc, r.ret)

\* save_session(token, expiry) with the storage step `fault` failing
SaveWith(m, tokens, expiries, faults) ==
    \E token \in tokens, expiry \in expiries, fault \in faults :
      \E n \in (IF expiry = None THEN After(now) ELSE {now}) :
        Returns("save_session", m,
                [token |-> token, expiry |-> expiry, at |-> n],
                save_session(fs, cache[m], token, expiry, n, fault), n)

Save(m) == SaveWith(m, PlainTokens, ExpiryArgs, {"none"})

SaveBarToken(m) == SaveWith(m, BarTokens, AwareExpiryArgs, {"none"})

SaveFails(m) == SaveWith(m, {<<"b">>}, AwareExpiryArgs, {"open", "write", "chmod"})

Load(m) ==
    \E n \in After(now) :
        Returns("load_session", m, None, load_session(fs, cache[m], n), n)

GetToken(m) ==
    \E n1 \in After(now) : \E n2 \in After(n1) : \E n3 \in After(n2) :
        Returns("get_session_token", m, None,
                get_session_token(fs, cache[m], n1, n2, n3), n3)

IsValid(m) ==
    \E n1 \in After(now) : \E n2 \in After(n1) :
        Returns("is_valid", m, None, is_valid(fs, cache[m], n1, n2), n2)

TimeUntilExpiry(m) ==
    \E n1 \in After(now) : \E n2 \in After(n1) : \E n3 \in After(n2) :
        Returns("time_until_expiry", m, None,
                time_until_expiry(fs, cache[m], n1, n2, n3), n3)

GetExpiryTime(m) ==
    \E n \in After(now) :
        Returns("get_expiry_time", m, None, get_expiry_time(fs, cache[m], n), n)

WarnIfExpiringSoon(m) ==
    \E w \in WarningMinutes :
      \E n1 \in After(now) : \E n2 \in After(n1) : \E n3 \in After(n2) :
        Returns("warn_if_expiring_soon", m, w,
                warn_if_expiring_soon(fs, cache[m], w, n1, n2, n3), n3)

Clear(m) ==
    Returns("clear_session", m, None, clear_session(fs, cache[m]), now)

\* the process ends and a new one constructs its manager on the same file
Restart(m) ==
    \E n \in After(now) :
        Returns("__init__", m, None, __init__(fs, n), n)

\* another program writes the file, or removes it
ExternalWrite ==
    \E x \in ExternalContents, mo \in {OpenMode} :
        /\ fs' = FileOf(x, mo)
        /\ last' = NoCall("external")
        /\ UNCHANGED <<cache, now>>

ExternalDelete ==
    /\ fs.exists
    /\ fs' = NoFile
    /\ last' = NoCall("external")
    /\ UNCHANGED <<cache, now>>

Call(m) ==
    \/ Save(m)
    \/ Load(m)
    \/ GetToken(m)
    \/ IsValid(m)
    \/ TimeUntilExpiry(m)
    \/ GetExpiryTime(m)
    \/ WarnIfExpiringSoon(m)
    \/ Clear(m)
    \/ Restart(m)

\* one process, valid tokens, storage that works
Next == \E m \in Solo : Call(m)

Spec == Init /\ [][Next]_vars

\* the same with saves that fail
NextFault == (\E m \in Solo : Call(m)) \/ (\E m \in Solo : SaveFails(m))

SpecFault == Init /\ [][NextFault]_vars

\* the same with a file that other programs touch, and tokens holding "|"
NextExt ==
    \/ \E m \in Solo : Call(m)
    \/ \E m \in Solo : SaveBarToken(m)
    \/ ExternalWrite
    \/ ExternalDelete

SpecExt == Init /\ [][NextExt]_vars

\* ------------------------------------------------------------- claims
\* In the step formulas below the unprimed variables are the state a call
\* finds and the primed ones the state it leaves; last' is the call.

ReadOps ==
    {"load_session", "get_session_token", "is_valid", "time_until_expiry",
     "get_expiry_time", "warn_if_expiring_soon"}

\* C1: a token without "|" saved with an expiry that is still in the future
\* when load_session is called next comes back from that load_session
\* unchanged, with the same expiry instant, and load_session does not raise.
C1_RoundTrip ==
    [][(/\ last.op = "save_session"
        /\ last.exc = NoExc
        /\ last.arg.expiry # None
        /\ "|" \notin Range(last.arg.token)
        /\ last'.op = "load_session"
        /\ last'.m = last.m
        /\ now' < last.arg.expiry[1].t)
       => (/\ last'.exc = NoExc
           /\ last'.ret[1] = Some(last.arg.token)
           /\ last'.ret[2][1].t = last.arg.expiry[1].t)]_vars

\* C2: load_session raises SessionExpiredError exactly when the file holds a
\* record that parses and whose expiry is at or before the clock it reads;
\* after that error the file is gone and the cache is empty.
C2_ExpiredExactly ==
    [][last'.op = "load_session"
       => (/\ (last'.exc = SessionExpiredError)
                <=> (HasRecord(fs) /\ ExpiryOf(fs) <= now')
           /\ last'.exc = SessionExpiredError
                => (~fs'.exists /\ cache'[last'.m] = NoCache))]_vars

C2_Witness ==
    /\ last.op = "load_session"
    /\ last.exc = SessionExpiredError
    /\ last.pre.disk = "expired"
    /\ ~fs.exists

C4_GetTokenFresh ==
    [][last'.op = "get_session_token"
       => (/\ last'.exc = NoExc
                => (/\ HasRecord(fs)
                    /\ now' < ExpiryOf(fs)
                    /\ last'.ret = cache'[last'.m].tok
                    /\ lstrip(last'.ret[1]) = TokenOf(fs))
           /\ (~fs.exists /\ cache[last'.m] = NoCache)
                => last'.exc = SessionNotFoundError
           /\ (HasRecord(fs) /\ now' >= ExpiryOf(fs))
                => last'.exc = SessionExpiredError)]_vars

C4_Witness ==
    /\ last.op = "get_session_token"
    /\ last.exc = SessionExpiredError
    /\ last.pre.cached
    /\ last.pre.disk = "valid"

\* the file holds exactly the line of the cached record, or there is neither
Agrees(f, c) ==
    IF c = NoCache
    THEN ~f.exists
    ELSE /\ c.tok # None
         /\ c.exp # None
         /\ f.exists
         /\ f.content = file_line(c.tok[1], c.exp[1])

\* C5: after save_session, after clear_session and after a read that removed
\* the file, whether the call returned or raised, the cache and the file
\* agree.
C5_CacheAgreesWithDisk ==
    [][(\/ last'.op \in {"save_session", "clear_session"}
        \/ (last'.op \in ReadOps /\ fs.exists /\ ~fs'.exists))
       => Agrees(fs', cache'[last'.m])]_vars

\* C6: every read made while the record on disk is at or past its expiry
\* leaves no file.
C6_EveryReadCleans ==
    [][(/\ last'.op \in ReadOps
        /\ HasRecord(fs)
        /\ ExpiryOf(fs) <= now)
       => ~fs'.exists]_vars

\* whether a read by a manager with cache c goes to the file
ReadsFile(op, c) ==
    CASE op = "load_session" -> TRUE
      [] op = "get_session_token" -> c.tok = None
      [] op = "get_expiry_time" -> c.exp = None
      [] OTHER -> c.tok = None \/ c.exp = None

\* C6 as amended: a read made while the record on disk is at or past its
\* expiry removes the file and empties the cache when it goes to the file
\* (load_session always, the others when the manager holds no cached record);
\* a read answered from the cache leaves the file and the cache as they were.
C6_ReadCleansWhenItLoads ==
    [][(/\ last'.op \in ReadOps
        /\ HasRecord(fs)
        /\ ExpiryOf(fs) <= now)
       => IF ReadsFile(last'.op, cache[last'.m])
          THEN ~fs'.exists /\ cache'[last'.m] = NoCache
          ELSE fs' = fs /\ cache' = cache]_vars

C6_Witness ==
    /\ last.op = "is_valid"
    /\ last.pre.disk = "expired"
    /\ ~last.pre.cached
    /\ last.ret = FALSE
    /\ ~fs.exists

\* C7: a save_session that fails raises IOError and leaves the file and the
\* cache exactly as it found them.
C7_FailedSaveChangesNothing ==
    [][(last'.op = "save_session" /\ last'.exc # NoExc)
       => (/\ last'.exc = IOError
           /\ fs' = fs
           /\ cache' = cache)]_vars

\* C8: load_session on a file without "|", or with an expiry that does not
\* parse, removes the file, empties the cache and raises
\* SessionNotFoundError.
C8_CorruptedIsNotFound ==
    [][(last'.op = "load_session" /\ Corrupted(fs))
       => (/\ last'.exc = SessionNotFoundError
           /\ ~fs'.exists
           /\ cache'[last'.m] = NoCache)]_vars

C8_Witness ==
    /\ last.op = "load_session"
    /\ last.pre.disk = "corrupt"
    /\ last.exc = SessionNotFoundError
    /\ ~fs.exists

\* C9: with no file and nothing cached, is_valid returns FALSE, load_session
\* raises SessionNotFoundError and time_until_expiry returns None, and each
\* leaves the file absent and the cache empty.
C9_AbsentStore ==
    [][(/\ last'.op \in {"is_valid", "load_session", "time_until_expiry"}
        /\ ~fs.exists
        /\ cache[last'.m] = NoCache)
       => (/\ ~fs'.exists
           /\ cache'[last'.m] = NoCache
           /\ last'.op = "is_valid"
                => (last'.exc = NoExc /\ last'.ret = FALSE)
           /\ last'.op = "load_session"
                => last'.exc = SessionNotFoundError
           /\ last'.op = "time_until_expiry"
                => (last'.exc = NoExc /\ last'.ret = None))]_vars

C9_Witness ==
    /\ last.op = "time_until_expiry"
    /\ last.pre.disk = "absent"
    /\ ~last.pre.cached
    /\ last.ret = None
    /\ ~fs.exists

\* C10: clear_session does not raise in any state, also when there is no
\* file, and leaves no file and an empty cache; is_valid called next returns
\* FALSE.
C10_ClearIdempotent ==
    [][/\ last'.op = "clear_session"
            => (/\ last'.exc = NoExc
                /\ ~fs'.exists
                /\ cache'[last'.m] = NoCache)
       /\ (/\ last.op = "clear_session"
           /\ last'.op = "is_valid"
           /\ last'.m = last.m)
            => (last'.exc = NoExc /\ last'.ret = FALSE)]_vars

C10_Witness ==
    /\ last.op = "clear_session"
    /\ last.pre.disk = "absent"
    /\ ~last.pre.cached
    /\ last.exc = NoExc
    /\ ~fs.exists

\* what is_valid and get_session_token give when called next after a save,
\* the clock standing where the save left it
ValidWithToken(call, token) ==
    /\ call.exc = NoExc
    /\ call.op = "is_valid" => call.ret = TRUE
    /\ call.op = "get_session_token" => call.ret = Some(token)

\* C11: after a successful save_session(token, expiry) made with no file or
\* a valid record on disk, is_valid called next with the clock not advanced
\* returns TRUE and get_session_token returns token.
C11_SaveLeavesValid ==
    [][(/\ last.op = "save_session"
        /\ last.exc = NoExc
        /\ last.arg.expiry # None
        /\ last.pre.disk \in {"absent", "valid"}
        /\ last'.op \in {"is_valid", "get_session_token"}
        /\ last'.m = last.m
        /\ now' = now)
       => ValidWithToken(last', last.arg.token)]_vars

\* C11 as amended: the same for a save_session whose expiry is strictly
\* after the clock at the time of the save.
C11_SaveInFutureLeavesValid ==
    [][(/\ last.op = "save_session"
        /\ last.exc = NoExc
        /\ last.arg.expiry # None
        /\ last.arg.expiry[1].t > now
        /\ last.pre.disk \in {"absent", "valid"}
        /\ last'.op \in {"is_valid", "get_session_token"}
        /\ last'.m = last.m
        /\ now' = now)
       => ValidWithToken(last', last.arg.token)]_vars

C11_Witness ==
    /\ last.op = "save_session"
    /\ last.exc = NoExc
    /\ last.pre.disk = "valid"
    /\ last.arg.expiry # None
    /\ last.arg.expiry[1].t > now
    /\ last.arg.token = <<"b">>
    /\ cache[last.m].tok = Some(<<"b">>)
    /\ fs.mode = SecureMode

\* the cache holds nothing, or a token that is not empty and an expiry
CachePopulated(c) ==
    \/ c = NoCache
    \/ (c.tok # None /\ c.exp # None /\ c.tok[1] # <<>>)

\* there is no file, or it holds a record whose token is not empty
DiskPopulated(f) == ~f.exists \/ (HasRecord(f) /\ TokenOf(f) # <<>>)

\* C12: every call of the manager, save_session included, leaves a cache that
\* is empty or holds a non-empty token with an expiry, and leaves no file or
\* a file that holds a record with a non-empty token.
C12_RecordsPopulated ==
    [][last'.op # "external"
       => (CachePopulated(cache'[last'.m]) /\ DiskPopulated(fs'))]_vars

\* C13: after every save_session that returns, the file is there with mode
\* 0o600, whatever mode a file had before the call.
C13_SavedFileIsPrivate ==
    [][(last'.op = "save_session" /\ last'.exc = NoExc)
       => (fs'.exists /\ fs'.mode = SecureMode)]_vars

C13_Witness ==
    /\ last.op = "save_session"
    /\ last.exc = NoExc
    /\ last.pre.mode = OpenMode
    /\ fs.exists
    /\ fs.mode = SecureMode

\* the file holds a record whose expiry is strictly after clock n
ValidAt(f, n) == HasRecord(f) /\ n < ExpiryOf(f)

\* C14: time_until_expiry does not raise.  It returns None only when the
\* session is not valid by the time it returns, and a number only when the
\* session was valid when it was called; with the clock standing still it
\* returns None exactly when the session is not valid.  The number is the
\* seconds from the clock to the expiry, and 0, never a negative number,
\* when the clock has reached the expiry after the validity check.
C14_TimeUntilExpiry ==
    [][last'.op = "time_until_expiry"
       => (/\ last'.exc = NoExc
           /\ last'.ret = None => ~ValidAt(fs, now')
           /\ last'.ret # None
                => (/\ ValidAt(fs, now)
                    /\ last'.ret[1] >= 0
                    /\ last'.ret[1] =
                         (IF ExpiryOf(fs) > now'
                          THEN (ExpiryOf(fs) - now') * SecondsPerMinute
                          ELSE 0))
           /\ now' = now => (last'.ret = None <=> ~ValidAt(fs, now)))]_vars

C14_Witness ==
    /\ last.op = "time_until_expiry"
    /\ last.pre.disk = "valid"
    /\ last.ret = Some(0)
    /\ HasRecord(fs)
    /\ ExpiryOf(fs) <= now

\* d is the last instant of the UTC day that holds clock n
LastOfDay(d, n) ==
    /\ d.aware
    /\ d.t \div DayLen = n \div DayLen
    /\ (d.t + 1) % DayLen = 0

C16_DefaultSaveLoads ==
    [][(/\ last.op = "save_session"
        /\ last.exc = NoExc
        /\ last.arg.expiry = None
        /\ "|" \notin Range(last.arg.token)
        /\ strip(last.arg.token) = last.arg.token
        /\ last'.op = "load_session"
        /\ last'.m = last.m
        /\ now' = last.arg.at)
       => (/\ last'.exc = NoExc
           /\ last'.ret[1] = Some(last.arg.token)
           /\ last'.ret[2] # None)]_vars

\* the record in file f expires less than `minutes` minutes after clock n
ExpiresWithin(f, n, minutes) == ExpiryOf(f) - n < minutes

\* C17: warn_if_expiring_soon(threshold) does not raise and returns the
\* warning or None.  It returns the warning only when the session was valid
\* when it was called and the time left is strictly less than threshold
\* minutes, and None only when the session is not valid by the time it
\* returns or the time left is threshold minutes or more; with the clock
\* standing still it returns the warning exactly when the session is valid
\* with less than threshold minutes left.
C17_WarnExactly ==
    [][last'.op = "warn_if_expiring_soon"
       => (/\ last'.exc = NoExc
           /\ last'.ret \in {None, Some("warning")}
           /\ last'.ret # None
                => (ValidAt(fs, now) /\ ExpiresWithin(fs, now', last'.arg))
           /\ last'.ret = None
                => (~ValidAt(fs, now') \/ ~ExpiresWithin(fs, now', last'.arg))
           /\ now' = now
                => (last'.ret # None
                      <=> (ValidAt(fs, now) /\ ExpiresWithin(fs, now, last'.arg))))]_vars

C17_Witness ==
    /\ last.op = "warn_if_expiring_soon"
    /\ last.pre.disk = "valid"
    /\ last.arg = 2
    /\ last.ret = Some("warning")
    /\ HasRecord(fs)
    /\ ExpiryOf(fs) - now = 1

\* C18: warn_if_expiring_soon leaves the file and the cache as it found them.
C18_WarnIsPure ==
    [][last'.op = "warn_if_expiring_soon"
       => (fs' = fs /\ cache' = cache)]_vars

\* cache c holds the record that is in file f
Loaded(f, c) ==
    /\ c.tok = Some(TokenOf(f))
    /\ c.exp # None
    /\ c.exp[1].t = ExpiryOf(f)

\* C18 as amended: warn_if_expiring_soon leaves the file and the cache as it
\* found them when the manager holds a cached record or there is no file.
\* With an empty cache and a file it goes to the file: it either leaves the
\* file as it is and caches its record, or removes the file and leaves the
\* cache empty; it removes a file that is corrupted or whose record has
\* expired, and keeps one whose record is valid when it returns.
C18_WarnLoadsOrCleans ==
    [][last'.op = "warn_if_expiring_soon"
       => IF cache[last'.m] # NoCache \/ ~fs.exists
          THEN fs' = fs /\ cache' = cache
          ELSE /\ \/ (fs' = fs /\ HasRecord(fs) /\ Loaded(fs, cache'[last'.m]))
                  \/ (~fs'.exists /\ cache'[last'.m] = NoCache)
               /\ (Corrupted(fs) \/ ~ValidAt(fs, now)) => ~fs'.exists
               /\ ValidAt(fs, now') => fs' = fs]_vars

C18_Witness ==
    /\ last.op = "warn_if_expiring_soon"
    /\ ~last.pre.cached
    /\ last.pre.disk = "expired"
    /\ last.pre.mode = OpenMode
    /\ last.ret = None
    /\ ~fs.exists

\* C19: get_expiry_time does not raise; it returns the expiry of the record
\* on disk when load_session at that instant would return it, and None when
\* load_session would fail: no file, a corrupted file, an expired record.
C19_ExpiryAsLoadWould ==
    [][last'.op = "get_expiry_time"
       => (/\ last'.exc = NoExc
           /\ IF ValidAt(fs, now')
              THEN last'.ret # None /\ last'.ret[1].t = ExpiryOf(fs)
              ELSE last'.ret = None)]_vars

\* C19 as amended: get_expiry_time does not raise.  A manager that holds a
\* cached expiry returns it, passed or not, and touches neither the file nor
\* the cache; one that holds none returns the expiry of the record on disk
\* when load_session at that instant would return it, and None otherwise.
C19_ExpiryCachedOrLoaded ==
    [][last'.op = "get_expiry_time"
       => (/\ last'.exc = NoExc
           /\ IF cache[last'.m].exp # None
              THEN /\ last'.ret = cache[last'.m].exp
                   /\ fs' = fs
                   /\ cache' = cache
              ELSE IF ValidAt(fs, now')
              THEN /\ last'.ret # None
                   /\ last'.ret[1].aware
                   /\ last'.ret[1].t = ExpiryOf(fs)
              ELSE last'.ret = None)]_vars

C19_Witness ==
    /\ last.op = "get_expiry_time"
    /\ last.pre.cached
    /\ last.pre.disk = "expired"
    /\ last.ret # None
    /\ last.ret[1].t <= now
    /\ fs.exists

\* C20: a manager constructed right after save_session(token, expiry), token
\* without "|", while the clock is before expiry, holds token and expiry
\* without a call of load_session; is_valid called on it next, the clock
\* still before the expiry, returns TRUE and get_session_token returns the
\* token it holds.
C20_PersistsAcrossRestart ==
    [][/\ (/\ last.op = "save_session"
           /\ last.exc = NoExc
           /\ last.arg.expiry # None
           /\ "|" \notin Range(last.arg.token)
           /\ last'.op = "__init__"
           /\ now' < last.arg.expiry[1].t)
            => (/\ last'.exc = NoExc
                /\ fs' = fs
                /\ cache'[last'.m].tok = Some(last.arg.token)
                /\ cache'[last'.m].exp # None
                /\ cache'[last'.m].exp[1].t = last.arg.expiry[1].t)
       /\ (/\ last.op = "__init__"
           /\ cache[last.m] # NoCache
           /\ last'.op \in {"is_valid", "get_session_token"}
           /\ last'.m = last.m
           /\ now' < cache[last.m].exp[1].t)
            => (/\ last'.exc = NoExc
                /\ last'.op = "is_valid" => last'.ret = TRUE
                /\ last'.op = "get_session_token"
                     => last'.ret = cache[last.m].tok)]_vars

\* C21: load_session called on a manager that was just constructed on a file
\* holding a record whose expiry had passed raises SessionExpiredError.
C21_NewManagerLoadExpired ==
    [][(/\ last.op = "__init__"
        /\ last.pre.disk = "expired"
        /\ last'.op = "load_session"
        /\ last'.m = last.m)
       => last'.exc = SessionExpiredError]_vars

\* ------------------------------------------------------------- exceptions.py
\* A message is a sequence of words; punctuation marks are words of their
\* own.  "key in message" is taken word by word.

\* str.lower() on the words that are written with capitals
lower_word(w) ==
    CASE w = "Session" -> "session"
      [] w = "TOKEN" -> "token"
      [] w = "Insufficient" -> "insufficient"
      [] w = "Authentication" -> "authentication"
      [] w = "API" -> "api"
      [] w = "Error" -> "error"
      [] OTHER -> w

lower(msg) == [i \in 1..Len(msg) |-> lower_word(msg[i])]

\* key in msg
Contains(msg, key) ==
    \E i \in 1..(Len(msg) - Len(key) + 1) : SubSeq(msg, i, i + Len(key) - 1) = key

\* any(x in msg for x in keys)
AnyIn(msg, keys) == \E k \in keys : Contains(msg, k)

\* the keyword lists of translate_sdk_error, in the order of its tests
SessionKeys == {<<"session">>, <<"token">>, <<"expired">>, <<"invalid", "session">>}
AuthKeys == {<<"authentication">>, <<"unauthorized">>, <<"invalid", "credentials">>}
FundsKeys == {<<"insufficient", "funds">>, <<"insufficient", "balance">>}
MarketKeys == {<<"market", "closed">>, <<"market", "is", "closed">>}
StockKeys == {<<"invalid", "stock">>, <<"invalid", "symbol">>}
OrderKeys == {<<"order", "not", "found">>}
RateKeys == {<<"rate", "limit">>, <<"too", "many", "requests">>}
NetworkKeys == {<<"connection">>, <<"timeout">>, <<"network">>}

\* an exception object: its class, str() of it, and original_error
Error(type, text, original) == [type |-> type, text |-> text, original |-> original]

\* the mark every subclass puts before its message
CrossMark == <<"(x)">>

\* class Exception
Exception(text) == Error("Exception", text, None)

\* class BreezeTraderError
BreezeTraderError(message, original) == Error("BreezeTraderError", message, original)

\* the default messages, by their first words
SessionExpiredText == <<"Session", "expired", "!">>
SessionNotFoundText == <<"No", "active", "session", "found", "!">>
AuthenticationText == <<"Authentication", "failed", "!">>

\* the subclasses that take an optional message
WithMessage(type, message, default) ==
    Error(type, CrossMark \o (IF message = None THEN default ELSE message[1]), None)

SessionExpired(message) == WithMessage(SessionExpiredError, message, SessionExpiredText)
SessionNotFound == WithMessage(SessionNotFoundError, None, SessionNotFoundText)
AuthenticationError(message) == WithMessage("AuthenticationError", message, AuthenticationText)
InsufficientFundsError == WithMessage("InsufficientFundsError", None, <<"Insufficient", "funds">>)
MarketClosedError == WithMessage("MarketClosedError", None, <<"Market", "is", "closed">>)
RateLimitError == WithMessage("RateLimitError", None, <<"API", "rate", "limit", "exceeded">>)
NetworkError(message) == WithMessage("NetworkError", message, <<"Network", "error", "!">>)
InvalidStockCodeError(stock_code) ==
    WithMessage("InvalidStockCodeError", Some(<<"Invalid", "stock", "code", ":", stock_code>>), <<>>)
OrderNotFoundError(order_id) ==
    WithMessage("OrderNotFoundError", Some(<<"Order", "not", "found", ":", order_id>>), <<>>)

\* translate_sdk_error with the authentication test before the session test
translate_auth_first(error, error_msg) ==
    IF AnyIn(error_msg, AuthKeys) THEN AuthenticationError(None)
    ELSE IF AnyIn(error_msg, SessionKeys) THEN SessionExpired(None)
    ELSE IF AnyIn(error_msg, FundsKeys) THEN InsufficientFundsError
    ELSE IF AnyIn(error_msg, MarketKeys) THEN MarketClosedError
    ELSE IF AnyIn(error_msg, StockKeys) THEN InvalidStockCodeError("Unknown")
    ELSE IF AnyIn(error_msg, OrderKeys) THEN OrderNotFoundError("Unknown")
    ELSE IF AnyIn(error_msg, RateKeys) THEN RateLimitError
    ELSE IF AnyIn(error_msg, NetworkKeys) THEN NetworkError(Some(error.text))
    ELSE BreezeTraderError(<<"API", "Error", ":">> \o error.text, Some(error))

\* translate_sdk_error from its first test on; error_msg is str(error).lower()
translate(error, error_msg) ==
    IF AnyIn(error_msg, SessionKeys) THEN SessionExpired(None)
    ELSE IF AnyIn(error_msg, AuthKeys) THEN AuthenticationError(None)
    ELSE IF AnyIn(error_msg, FundsKeys) THEN InsufficientFundsError
    ELSE IF AnyIn(error_msg, MarketKeys) THEN MarketClosedError
    ELSE IF AnyIn(error_msg, StockKeys) THEN InvalidStockCodeError("Unknown")
    ELSE IF AnyIn(error_msg, OrderKeys) THEN OrderNotFoundError("Unknown")
    ELSE IF AnyIn(error_msg, RateKeys) THEN RateLimitError
    ELSE IF AnyIn(error_msg, NetworkKeys) THEN NetworkError(Some(error.text))
    ELSE BreezeTraderError(<<"API", "Error", ":">> \o error.text, Some(error))

\* translate_sdk_error
translate_sdk_error(error) == translate(error, lower(error.text))

\* ------------------------------------------------------------- client.py
\* A BreezeTrader method gives, as a handler does, the file and the cache of
\* its SessionManager, the class of the error it raises, and as its value
\* the SDK function it called, None when it called none.

\* the methods of BreezeTrader that call the SDK, with the function each calls
SdkFunction ==
    [place_order |-> "place_order",
     modify_order |-> "modify_order",
     cancel_order |-> "cancel_order",
     get_order |-> "get_order_detail",
     get_orders |-> "get_order_list",
     get_portfolio |-> "get_portfolio_holdings",
     get_positions |-> "get_portfolio_positions",
     square_off |-> "square_off",
     get_quote |-> "get_quotes",
     get_historical_data |-> "get_historical_data_v2",
     get_option_chain |-> "get_option_chain_quotes",
     get_funds |-> "get_funds",
     get_margin |-> "get_margin",
     get_customer_details |-> "get_customer_details",
     place_gtt |-> "place_gtt_order",
     get_gtt_orders |-> "get_gtt_order_list",
     modify_gtt |-> "modify_gtt_order",
     cancel_gtt |-> "cancel_gtt_order",
     subscribe_feeds |-> "subscribe_feeds",
     subscribe_order_updates |-> "subscribe_order_notification",
     ws_connect |-> "ws_connect",
     ws_disconnect |-> "ws_disconnect"]

ApiMethods == DOMAIN SdkFunction

\* what the SDK raises when a call fails
SdkErrors == {Exception(<<"Session", "key", "expired">>)}

\* what a call of the SDK does: it returns (None) or raises
SdkOutcomes == {None} \cup {Some(e) : e \in SdkErrors}

\* the exception object behind a class the SessionManager raises
raised(exc) ==
    IF exc = SessionExpiredError THEN SessionExpired(None) ELSE SessionNotFound

\* "try: self._breeze_sdk.f(...) except Exception as e: raise
\* translate_sdk_error(e)"
sdk_call(file, c, function, outcome) ==
    IF outcome = None
    THEN Result(file, c, NoExc, Some(function))
    ELSE Result(file, c, translate_sdk_error(outcome[1]).type, Some(function))

\* ws_disconnect: the exception is logged and not raised
sdk_call_logged(file, c, function, outcome) == Result(file, c, NoExc, Some(function))

\* _check_session after warn_if_expiring_soon, which gave r
check_warned(r) == Result(r.fs, r.c, r.exc, None)

\* _check_session after is_valid, which gave v
check_valid(v, alert, warning_minutes, n3, n4, n5) ==
    IF v.exc # NoExc
    THEN Result(v.fs, v.c, v.exc, None)
    ELSE IF ~v.ret
    THEN Result(v.fs, v.c, SessionExpiredError, None)
    ELSE IF alert
    THEN check_warned(warn_if_expiring_soon(v.fs, v.c, warning_minutes, n3, n4, n5))
    ELSE Result(v.fs, v.c, NoExc, None)

\* BreezeTrader._check_session; alert is the configuration's
\* notifications.alert_on_session_expiry
_check_session(file, c, alert, warning_minutes, n1, n2, n3, n4, n5) ==
    check_valid(is_valid(file, c, n1, n2), alert, warning_minutes, n3, n4, n5)

\* a method after its _check_session(), which gave k
checked_method(k, function, outcome) ==
    IF k.exc # NoExc
    THEN Result(k.fs, k.c, k.exc, None)
    ELSE sdk_call(k.fs, k.c, function, outcome)

\* get_customer_details after get_session_token(), which gave t: its
\* exception is raised inside the try block, before the SDK is called
customer_details(t, function, outcome) ==
    IF t.exc # NoExc
    THEN Result(t.fs, t.c, translate_sdk_error(raised(t.exc)).type, None)
    ELSE sdk_call(t.fs, t.c, function, outcome)

\* a call of a BreezeTrader method that calls the SDK
api_call(method, file, c, alert, warning_minutes, n1, n2, n3, n4, n5, outcome) ==
    CASE method = "ws_connect" -> sdk_call(file, c, SdkFunction[method], outcome)
      [] method = "ws_disconnect" -> sdk_call_logged(file, c, SdkFunction[method], outcome)
      [] method = "get_customer_details" ->
           customer_details(get_session_token(file, c, n1, n2, n3),
                            SdkFunction[method], outcome)
      [] OTHER ->
           checked_method(
               _check_session(file, c, alert, warning_minutes, n1, n2, n3, n4, n5),
               SdkFunction[method], outcome)

\* session.warn_before_expiry_minutes of the configuration
ConfiguredWarning == 1

\* notifications.alert_on_session_expiry of the configuration
ConfiguredAlert == TRUE

\* manager m's client has called method op, which gave r, the clock standing
\* at n; the record keeps the call and what it gave
Responds(op, m, r, n) ==
    /\ fs' = r.fs
    /\ cache' = [cache EXCEPT ![m] = r.c]
    /\ now' = n
    /\ last' = [NoCall(op) EXCEPT !.m = m, !.exc = r.exc, !.ret = r.ret]

ApiCall(m) ==
    \E method \in ApiMethods, outcome \in SdkOutcomes :
      \E n1 \in After(now) : \E n2 \in After(n1) : \E n3 \in After(n2) :
        \E n4 \in After(n3) : \E n5 \in After(n4) :
          Responds(method, m,
                   api_call(method, fs, cache[m], ConfiguredAlert, ConfiguredWarning,
                            n1, n2, n3, n4, n5, outcome), n5)

\* the client's process among the programs that write and remove the file
NextClient ==
    \/ \E m \in Solo : ApiCall(m)
    \/ \E m \in Solo : Restart(m)
    \/ ExternalWrite
    \/ ExternalDelete

\* the client's process starts on the file the login script left, if any
InitClient ==
    \E f \in {NoFile} \cup {FileOf(x, SecureMode) : x \in ExternalContents} :
        /\ fs = __init__(f, 0).fs
        /\ cache = [m \in Mgrs |-> IF m \in Solo THEN __init__(f, 0).c ELSE NoCache]
        /\ now = 0
        /\ last = NoCall("__init__")

SpecClient == InitClient /\ [][NextClient]_vars

\* what is_valid would answer for a manager with cache c at clock n
SessionValid(f, c, n) ==
    IF c # NoCache THEN n < c.exp[1].t ELSE ValidAt(f, n)

\* C22: a BreezeTrader method that calls the SDK, called while the session
\* is not valid, raises SessionExpiredError and calls no SDK function.
C22_ApiGate ==
    [][(last'.op \in ApiMethods /\ ~SessionValid(fs, cache[last'.m], now))
       => (last'.exc = SessionExpiredError /\ last'.ret = None)]_vars

\* ------------------------------------------------------------- two managers
\* two SessionManager objects on the same file, no lock between them
NextTwo == \E m \in Mgrs : Save(m) \/ Load(m) \/ IsValid(m) \/ GetToken(m) \/ Clear(m)

SpecTwo == Init /\ [][NextTwo]_vars

\* C23: when a save_session(r2) by one manager follows a save_session by
\* the other, the file holds exactly the line of r2; and load_session called
\* next by either manager, the clock before r2's expiry, returns r2's token
\* and expiry (r2's token being free of "|").
C23_LastWriterWins ==
    [][/\ (/\ last.op = "save_session"
           /\ last.exc = NoExc
           /\ last'.op = "save_session"
           /\ last'.exc = NoExc
           /\ last'.m # last.m
           /\ last'.arg.expiry # None)
            => fs'.content =
                 file_line(last'.arg.token, as_utc(last'.arg.expiry[1]))
       /\ (/\ last.op = "save_session"
           /\ last.exc = NoExc
           /\ last.arg.expiry # None
           /\ "|" \notin Range(last.arg.token)
           /\ last'.op = "load_session"
           /\ now' < last.arg.expiry[1].t)
            => (/\ last'.exc = NoExc
                /\ last'.ret[1] = Some(last.arg.token)
                /\ last'.ret[2] = Some(as_utc(last.arg.expiry[1])))]_vars

\* ------------------------------------------------------------- error messages
\* what SDK error messages are made of: the keywords, some of them written
\* with capitals, and words that are no keywords
Phrases ==
    SessionKeys \cup AuthKeys \cup FundsKeys \cup MarketKeys \cup StockKeys
        \cup OrderKeys \cup RateKeys \cup NetworkKeys
        \cup {<<"Session">>, <<"TOKEN">>, <<"Insufficient", "funds">>,
              <<"boom">>, <<"invalid">>, <<"market">>}

RECURSIVE MessagesUpTo(_)
MessagesUpTo(k) ==
    IF k = 0
    THEN {<<>>}
    ELSE MessagesUpTo(k - 1)
           \cup {msg \o p : msg \in MessagesUpTo(k - 1), p \in Phrases}

Messages == MessagesUpTo(MaxPhrases)

\* the state before a function is called on an input drawn from `inputs`
InitPure(inputs) ==
    \E x \in inputs :
        /\ fs = NoFile
        /\ cache = [m \in Mgrs |-> NoCache]
        /\ now = 0
        /\ last = [NoCall("input") EXCEPT !.arg = x]

\* the call of function op on the input, which gives ret
Gives(op, ret) ==
    /\ last.op = "input"
    /\ last' = [last EXCEPT !.op = op, !.ret = ret]
    /\ UNCHANGED <<fs, cache, now>>

Translate == Gives("translate_sdk_error", translate_sdk_error(Exception(last.arg)))

SpecTranslate == InitPure(Messages) /\ [][Translate]_vars

\* the keyword groups in the order of their priority, with the class of each
Priority ==
    <<[keys |-> SessionKeys, type |-> SessionExpiredError],
      [keys |-> AuthKeys, type |-> "AuthenticationError"],
      [keys |-> FundsKeys, type |-> "InsufficientFundsError"],
      [keys |-> MarketKeys, type |-> "MarketClosedError"],
      [keys |-> StockKeys, type |-> "InvalidStockCodeError"],
      [keys |-> OrderKeys, type |-> "OrderNotFoundError"],
      [keys |-> RateKeys, type |-> "RateLimitError"],
      [keys |-> NetworkKeys, type |-> "NetworkError"]>>

\* group i is the first whose keyword is in msg
FirstMatch(msg, i) ==
    /\ AnyIn(msg, Priority[i].keys)
    /\ \A j \in 1..(i - 1) : ~AnyIn(msg, Priority[j].keys)

\* C24: translate_sdk_error returns an error of the class of the first
\* keyword group, in the priority order, that has a keyword in the
\* lower-cased message, and the base BreezeTraderError carrying the original
\* message and the original error when no group has one.
C24_TranslateByPriority ==
    [][last'.op = "translate_sdk_error"
       => (/\ \A i \in 1..Len(Priority) :
                FirstMatch(lower(last'.arg), i) => last'.ret.type = Priority[i].type
           /\ (\A i \in 1..Len(Priority) : ~AnyIn(lower(last'.arg), Priority[i].keys))
                => (/\ last'.ret.type = "BreezeTraderError"
                    /\ last'.ret.text = <<"API", "Error", ":">> \o last'.arg
                    /\ last'.ret.original = Some(Exception(last'.arg))))]_vars

C24_Witness ==
    /\ last.op = "translate_sdk_error"
    /\ Contains(last.arg, <<"unauthorized">>)
    /\ Contains(last.arg, <<"TOKEN">>)
    /\ last.ret.type = SessionExpiredError

\* ------------------------------------------------------------- utils.py
\* A dict is the sequence of its <<key, value>> items in insertion order,
\* no key twice.

PARAMETER_ALIASES ==
    [type |-> "order_type",
     exchange |-> "exchange_code",
     qty |-> "quantity",
     product_type |-> "product",
     stop_loss |-> "stoploss",
     sl |-> "stoploss",
     disclosed_qty |-> "disclosed_quantity",
     valid_till |-> "validity",
     expiry |-> "expiry_date",
     strike |-> "strike_price",
     option_type |-> "right",
     trigger |-> "trigger_price",
     limit |-> "limit_price"]

\* d.keys()
Keys(d) == {d[i][1] : i \in 1..Len(d)}

\* d[key], for a key of d
Get(d, key) == d[CHOOSE i \in 1..Len(d) : d[i][1] = key][2]

\* d[key] = value: a key that is there keeps its place
dict_set(d, key, value) ==
    IF key \in Keys(d)
    THEN [i \in 1..Len(d) |-> IF d[i][1] = key THEN <<key, value>> ELSE d[i]]
    ELSE Append(d, <<key, value>>)

\* PARAMETER_ALIASES.get(key, key)
resolved_key(key) ==
    IF key \in DOMAIN PARAMETER_ALIASES THEN PARAMETER_ALIASES[key] ELSE key

\* the loop of resolve_parameter_aliases over the items left, resolved being
\* the dict built so far
RECURSIVE resolve_items(_, _)
resolve_items(items, resolved) ==
    IF items = <<>>
    THEN resolved
    ELSE resolve_items(Tail(items),
                       dict_set(resolved, resolved_key(Head(items)[1]), Head(items)[2]))

resolve_parameter_aliases(kwargs) == resolve_items(kwargs, <<>>)

\* keyword names: aliases, the SDK names they stand for, and a name that is
\* neither
KwargKeys ==
    {"type", "order_type", "sl", "stop_loss", "stoploss", "price", "exchange", "qty"}
KwargValues == {"1", "2"}

\* the dicts of up to k items
RECURSIVE DictsUpTo(_)
DictsUpTo(k) ==
    IF k = 0
    THEN {<<>>}
    ELSE DictsUpTo(k - 1)
           \cup {Append(d, <<key, v>>) :
                   d \in {x \in DictsUpTo(k - 1) : Len(x) = k - 1},
                   key \in KwargKeys, v \in KwargValues}

Dicts == {d \in DictsUpTo(MaxKeys) : Cardinality(Keys(d)) = Len(d)}

ResolveAliases ==
    Gives("resolve_parameter_aliases", resolve_parameter_aliases(last.arg))

SpecAliases == InitPure(Dicts) /\ [][ResolveAliases]_vars

\* C25: the result of resolve_parameter_aliases holds, for every item
\* (key, value) given, the value under the SDK name of key (the key itself
\* when it is no alias) and holds no other key; it holds no alias, and
\* resolving it again gives it back.
C25_AliasesResolved ==
    [][last'.op = "resolve_parameter_aliases"
       => (/\ \A i \in 1..Len(last'.arg) :
                /\ resolved_key(last'.arg[i][1]) \in Keys(last'.ret)
                /\ Get(last'.ret, resolved_key(last'.arg[i][1])) = last'.arg[i][2]
           /\ Keys(last'.ret) = {resolved_key(k) : k \in Keys(last'.arg)}
           /\ Keys(last'.ret) \cap DOMAIN PARAMETER_ALIASES = {}
           /\ resolve_parameter_aliases(last'.ret) = last'.ret)]_vars

\* C26: save_session with a token that holds "|" returns normally; the file
\* it leaves does not parse, and load_session called next raises
\* SessionNotFoundError, removes the file and empties the cache, so that the
\* token is not returned.
C26_SeparatorInToken ==
    [][/\ (last'.op = "save_session" /\ "|" \in Range(last'.arg.token))
            => (last'.exc = NoExc /\ Corrupted(fs'))
       /\ (/\ last.op = "save_session"
           /\ "|" \in Range(last.arg.token)
           /\ last'.op = "load_session"
           /\ last'.m = last.m)
            => (/\ last'.exc = SessionNotFoundError
                /\ last'.ret = None
                /\ ~fs'.exists
                /\ cache'[last'.m] = NoCache)]_vars

C26_Witness ==
    /\ last.op = "save_session"
    /\ "|" \in Range(last.arg.token)
    /\ last.exc = NoExc
    /\ Corrupted(fs)
    /\ cache[last.m].tok = Some(last.arg.token)

\* result.update(d): the items of d are set one after the other
RECURSIVE update(_, _)
update(result, d) ==
    IF d = <<>>
    THEN result
    ELSE update(dict_set(result, Head(d)[1], Head(d)[2]), Tail(d))

\* a dict argument that merge_dicts takes is Some(dict); None is None
\* merge_dicts where the first dict that has a key keeps it
RECURSIVE merge_first_wins(_)
merge_first_wins(dicts) ==
    IF dicts = <<>>
    THEN <<>>
    ELSE IF dicts[Len(dicts)] = None \/ dicts[Len(dicts)] = Some(<<>>)
    THEN merge_first_wins(SubSeq(dicts, 1, Len(dicts) - 1))
    ELSE update(dicts[Len(dicts)][1],
                merge_first_wins(SubSeq(dicts, 1, Len(dicts) - 1)))

\* merge_dicts(*dicts): "if d" passes over None and over the empty dict
RECURSIVE merge_dicts(_)
merge_dicts(dicts) ==
    IF dicts = <<>>
    THEN <<>>
    ELSE IF dicts[Len(dicts)] = None \/ dicts[Len(dicts)] = Some(<<>>)
    THEN merge_dicts(SubSeq(dicts, 1, Len(dicts) - 1))
    ELSE update(merge_dicts(SubSeq(dicts, 1, Len(dicts) - 1)),
                dicts[Len(dicts)][1])

\* ------------------------------------------------------------- place_order
\* "Layer 1: Hard defaults"
defaults ==
    <<<<"order_type", "market">>, <<"price", "0">>, <<"validity", "day">>,
      <<"stoploss", "">>, <<"disclosed_quantity", "0">>, <<"expiry_date", "">>,
      <<"right", "">>, <<"strike_price", "">>, <<"user_remark", "">>,
      <<"order_type_fresh", "">>, <<"order_rate_fresh", "">>>>

\* self._config_manager.get(key, default) on a configuration that holds
\* configured, None when the key is not configured
config_get(configured, default) ==
    IF configured = None THEN default ELSE configured[1]

\* "Layer 2: Config defaults"
config_defaults(config) ==
    <<<<"exchange_code", config_get(config.exchange, "NSE")>>,
      <<"product", config_get(config.product, "cash")>>>>

\* params.get(key, default)
get(d, key, default) == IF key \in Keys(d) THEN Get(d, key) ELSE default

\* the keyword arguments of self._breeze_sdk.place_order, params being the
\* merged layers.  Values are strings, on which str() changes nothing.
sdk_order(stock, action, quantity, params) ==
    [stock_code |-> stock,
     exchange_code |-> Get(params, "exchange_code"),
     product |-> Get(params, "product"),
     action |-> action,
     order_type |-> Get(params, "order_type"),
     stoploss |-> get(params, "stoploss", ""),
     quantity |-> quantity,
     price |-> get(params, "price", "0"),
     validity |-> Get(params, "validity"),
     disclosed_quantity |-> get(params, "disclosed_quantity", "0"),
     expiry_date |-> Get(params, "expiry_date"),
     right |-> Get(params, "right"),
     strike_price |-> get(params, "strike_price", ""),
     user_remark |-> get(params, "user_remark", ""),
     order_type_fresh |-> get(params, "order_type_fresh", ""),
     order_rate_fresh |-> get(params, "order_rate_fresh", "")]

\* place_order from "Resolve parameter aliases" to the call of the SDK: what
\* it sends
place_order(stock, action, quantity, kwargs, config) ==
    sdk_order(stock, action, quantity,
              merge_dicts(<<Some(defaults), Some(config_defaults(config)),
                            Some(resolve_parameter_aliases(kwargs))>>))

\* trading.default_exchange and trading.default_product as configured
Configs == [exchange : {None, Some("BSE")}, product : {None, Some("margin")}]

Orders == [kwargs : Dicts, config : Configs]

PlaceOrder ==
    /\ last.arg \in Orders
    /\ Gives("place_order",
             place_order("X", "buy", "10", last.arg.kwargs, last.arg.config))

\* merge_dicts on the three layers with a None and an empty dict among them
MergeDicts ==
    /\ last.arg \in Orders
    /\ Gives("merge_dicts",
             merge_dicts(<<Some(defaults), None, Some(config_defaults(last.arg.config)),
                           Some(<<>>), Some(last.arg.kwargs)>>))

NextOrder == PlaceOrder \/ MergeDicts

SpecOrder == InitPure(Orders) /\ [][NextOrder]_vars

\* the value parameter p has by the precedence user keyword argument (after
\* alias resolution) over config default over hard-coded default
ByPrecedence(p, user, config, hard) ==
    IF p \in Keys(user) THEN Get(user, p)
    ELSE IF p \in Keys(config) THEN Get(config, p)
    ELSE Get(hard, p)

\* merged gives, for each key of the dicts, the value of the last of them
\* that has it, and has no other key
LastWins(merged, d1, d2, d3) ==
    /\ Keys(merged) = Keys(d1) \cup Keys(d2) \cup Keys(d3)
    /\ \A k \in Keys(merged) : Get(merged, k) = ByPrecedence(k, d3, d2, d1)

\* C27: every parameter place_order sends to the SDK has the value given by
\* the precedence user keyword argument (after alias resolution) over config
\* default over hard-coded default, the quantity given by position standing
\* for the hard-coded default of quantity; and merge_dicts gives the value
\* of the last dict that has a key, passing over None and empty arguments.
C27_OrderPrecedence ==
    [][/\ last'.op = "place_order"
            => \A p \in DOMAIN last'.ret \ {"stock_code", "action"} :
                 last'.ret[p] =
                   ByPrecedence(p, resolve_parameter_aliases(last'.arg.kwargs),
                                config_defaults(last'.arg.config),
                                Append(defaults, <<"quantity", "10">>))
       /\ last'.op = "merge_dicts"
            => LastWins(last'.ret, defaults, config_defaults(last'.arg.config),
                        last'.arg.kwargs)]_vars

\* C27 as amended: the same for every parameter but quantity, which is the
\* quantity given by position whatever the keyword arguments say.
C27_OrderPrecedenceButQuantity ==
    [][/\ last'.op = "place_order"
            => (/\ \A p \in DOMAIN last'.ret \ {"stock_code", "action", "quantity"} :
                     last'.ret[p] =
                       ByPrecedence(p, resolve_parameter_aliases(last'.arg.kwargs),
                                    config_defaults(last'.arg.config), defaults)
                /\ last'.ret.quantity = "10"
                /\ last'.ret.stock_code = "X"
                /\ last'.ret.action = "buy")
       /\ last'.op = "merge_dicts"
            => LastWins(last'.ret, defaults, config_defaults(last'.arg.config),
                        last'.arg.kwargs)]_vars

C27_Witness ==
    /\ last.op = "place_order"
    /\ "exchange" \in Keys(last.arg.kwargs)
    /\ "qty" \in Keys(last.arg.kwargs)
    /\ last.arg.config.exchange = Some("BSE")
    /\ last.ret.exchange_code = Get(last.arg.kwargs, "exchange")
    /\ last.ret.product = "cash"
    /\ last.ret.order_type = "market"

\* ---------------------------------------------------------- _initialize_sdk
\* the Status of a generate_session response that succeeded
StatusOK == 200

\* what generate_session returns: None, or a dict with Status and Error
Responses == {None} \cup {Some(d) : d \in [Status : {StatusOK, 500}, Error : Messages]}

\* "if response and isinstance(response, dict): if response.get('Status') !=
\* 200 and response.get('Error'): raise AuthenticationError(...)"; None when
\* nothing is raised
response_checked(response) ==
    IF response # None /\ response[1].Status # StatusOK /\ response[1].Error # <<>>
    THEN Some(AuthenticationError(
                  Some(<<"Session", "generation", "failed", ":">> \o response[1].Error)))
    ELSE None

\* "except Exception as e: raise translate_sdk_error(e)" around the block;
\* in_try is what the block raised
sdk_initialized(in_try) ==
    IF in_try = None THEN None ELSE Some(translate_sdk_error(in_try[1]))

\* _initialize_sdk from "Initialize SDK" on, the credentials being there and
\* the session valid: the error it raises, None when it returns
_initialize_sdk(response) == sdk_initialized(response_checked(response))

InitializeSdk == Gives("_initialize_sdk", _initialize_sdk(last.arg))

SpecInitialize == InitPure(Responses) /\ [][InitializeSdk]_vars

\* C28: when generate_session returns a dict with Status other than 200 and
\* a non-empty Error, the construction of BreezeTrader raises
\* AuthenticationError.
C28_FailedGenerationIsAuthError ==
    [][(/\ last'.op = "_initialize_sdk"
        /\ last'.arg # None
        /\ last'.arg[1].Status # StatusOK
        /\ last'.arg[1].Error # <<>>)
       => (last'.ret # None /\ last'.ret[1].type = "AuthenticationError")]_vars

\* C29: when a manager holds a cached record and another process has then
\* saved a record whose expiry is in the future to the same file, the
\* manager's next is_valid returns True and its next get_session_token
\* returns the token that was saved.
C29_ReloginPickedUp ==
    [][(/\ last.op = "save_session"
        /\ last.exc = NoExc
        /\ last.arg.token \in {<<"a">>, <<"b">>}
        /\ last.arg.expiry # None
        /\ now' < last.arg.expiry[1].t
        /\ last'.m # last.m
        /\ cache[last'.m] # NoCache
        /\ cache[last'.m].tok # Some(<<>>))
       => (/\ last'.op = "is_valid" => last'.ret = TRUE
           /\ last'.op = "get_session_token"
                => (last'.exc = NoExc /\ last'.ret = Some(last.arg.token)))]_vars

\* ------------------------------------------------------ the steps of save
\* save_session standing between write_text and chmod: the file is as it is
\* when the chmod is about to be made, which is how r, the save whose chmod
\* fails, leaves it
written(r) == Result(r.fs, r.c, NoExc, None)

\* save_session up to and including write_text
SaveWritten(m) ==
    \E token \in PlainTokens, expiry \in ExpiryArgs :
      \E n \in (IF expiry = None THEN After(now) ELSE {now}) :
        Returns("write_text", m,
                [token |-> token, expiry |-> expiry, at |-> n],
                written(save_session(fs, cache[m], token, expiry, n, "chmod")), n)

\* the rest of the save_session that stands after write_text: chmod and the
\* update of the cache
SaveSecured(m) ==
    /\ last.op = "write_text"
    /\ last.m = m
    /\ Returns("save_session", m, last.arg,
               save_session(fs, cache[m], last.arg.token, last.arg.expiry,
                            last.arg.at, "none"), now)

\* the manager's calls, save_session being taken in its two steps
NextSteps ==
    \/ last.op # "write_text" /\ \E m \in Solo : Call(m)
    \/ last.op # "write_text" /\ \E m \in Solo : SaveWritten(m)
    \/ \E m \in Solo : SaveSecured(m)

SpecSteps == Init /\ [][NextSteps]_vars

\* C30: at every step of save_session at which the file holds the token, and
\* not only when it has returned, the mode of the file is 0o600.
C30_NeverExposedDuringSave ==
    [][(last'.op \in {"write_text", "save_session"} /\ fs'.exists /\ fs'.content # <<>>)
       => fs'.mode = SecureMode]_vars

====
